---- MODULE Spec2Model ----
(***************************************************************************)
(* A model of dxgcap-rs (src/src/lib.rs): the owning handle over a         *)
(* reference-counted foreign (COM) object, the adapter output enumerator,  *)
(* and the per-output duplication/capture protocol (get_frame and          *)
(* release_frame) over a device and a device context shared behind locks.  *)
(*                                                                         *)
(* These specifications share the module:                                  *)
(*   SpecHandle  UniqueCOMPtr: from_ptr, query_interface, move, drop       *)
(*   SpecEnum    get_adater_outputs                                        *)
(*   SpecDesc    the staging description derived in get_frame              *)
(*   SpecTimeout the timeout get_frame hands to AcquireNextFrame           *)
(*   Spec        DuplicatedOutput::get_frame / release_frame, one thread   *)
(*               per Duplicated Output, shared device and context locks    *)
(* Each one leaves the variables of the others at their initial value.     *)
(***************************************************************************)
EXTENDS Integers, Sequences, FiniteSets, TLC

VARIABLES
    \* ---- SpecHandle ----
    hs,        \* handle id -> [st, obj, owner, rel]
    rc,        \* foreign object -> its reference count
    addrefs,   \* foreign object -> increments made by the foreign QueryInterface
    releases,  \* foreign object -> Release calls made
    qres,      \* what the last query_interface call returned
    \* ---- SpecEnum ----
    adapter,   \* the adapter's outputs, index 0 first: "attached" / "detached"
    failHr,    \* the status EnumOutputs returns at every index past the last output
    nextIdx,   \* the index the (0..) range hands out next
    queried,   \* the indices EnumOutputs was called with, in call order
    yielded,   \* the indices of the outputs collected into the Vec, in order
    outRefs,   \* index -> "none" / "raw" (obtained, owned by no handle) / "handle"
    enumDone,  \* collect() has returned
    \* ---- SpecDesc ----
    srcDesc,   \* the description GetDesc reports for the frame texture
    passedDesc,\* the description handed to CreateTexture2D ("none" before)
    \* ---- SpecTimeout ----
    timeoutMs, \* timeout.num_milliseconds(): an i64 as four 16-bit limbs, low first
    passedMs,  \* the u32 handed to AcquireNextFrame as two 16-bit limbs, <<>> before
    \* ---- Spec ----
    pc,        \* output -> where its thread is inside get_frame / release_frame
    session,   \* output -> the duplication session's state: "Idle" / "Acquired"
    lockDev,   \* holder of the device mutex, 0 when free
    lockCtx,   \* holder of the context mutex, 0 when free
    poisonDev, \* the device mutex is poisoned
    poisonCtx, \* the context mutex is poisoned
    result,    \* output -> what its last call returned
    frameRc,   \* output -> references held on the acquired frame resource
    stageRc,   \* output -> references held on the staging texture
    held,      \* output -> the surfaces get_frame returned that the caller still owns
    calls      \* output -> the foreign calls and lock() calls of its current call

handleVars == <<hs, rc, addrefs, releases, qres>>
enumVars   == <<adapter, failHr, nextIdx, queried, yielded, outRefs, enumDone>>
descVars   == <<srcDesc, passedDesc>>
timeVars   == <<timeoutMs, passedMs>>
capVars    == <<pc, session, lockDev, lockCtx, poisonDev, poisonCtx, result,
                frameRc, stageRc, held, calls>>
vars       == <<handleVars, enumVars, descVars, timeVars, capVars>>

----------------------------------------------------------------------------
(* Status codes of the foreign subsystem (HRESULT, a signed 32-bit value). *)

S_OK == 0
E_NOINTERFACE == -2147467262
E_OUTOFMEMORY == -2147024882
DXGI_ERROR_INVALID_CALL == -2005270527
DXGI_ERROR_NOT_FOUND == -2005270526
DXGI_ERROR_ACCESS_LOST == -2005270490
DXGI_ERROR_WAIT_TIMEOUT == -2005270489

hr_failed(hr) == hr < 0

----------------------------------------------------------------------------
(* Bounds of the model.                                                    *)

MaxHandles == 4     \* handles constructed in one behaviour of SpecHandle
NumObjects == 2     \* foreign objects of SpecHandle
MaxOutputs == 4     \* outputs an adapter of SpecEnum reports
MaxDim     == 2     \* width and height of a source texture of SpecDesc
NumOutputs == 2     \* Duplicated Outputs (and threads) of Spec
MaxSurfaces == 2    \* surfaces alive or in the making at a time, all outputs

----------------------------------------------------------------------------
(* UniqueCOMPtr: the owning handle over one foreign reference.             *)
(* A handle world W is the record [hs, rc, addrefs, releases].             *)

Handles == 1..MaxHandles
Objects == 1..NumObjects
Owners  == {"a", "b"}

NoHandle == [st |-> "unused", obj |-> 0, owner |-> "a", rel |-> 0]
NoQuery  == [self |-> 0, ok |-> FALSE, hr |-> 0, err |-> 0, new |-> 0]

World == [hs |-> hs, rc |-> rc, addrefs |-> addrefs, releases |-> releases]

Alive(H, o) == {h \in DOMAIN H : H[h].st = "alive" /\ H[h].obj = o}
Gone(H, o)  == {h \in DOMAIN H : H[h].st = "gone" /\ H[h].obj = o}
Used(H)     == {h \in DOMAIN H : H[h].st # "unused"}

\* from_ptr: wraps the raw pointer; no foreign call is made.
from_ptr(W, h, o, w) ==
    [W EXCEPT !.hs[h] = [st |-> "alive", obj |-> o, owner |-> w, rel |-> 0]]

\* Drop::drop: one Release on the wrapped object; the handle is gone.
drop_leak(W, h) ==
    [W EXCEPT !.hs[h].st = "gone"]
drop(W, h) ==
    LET o == W.hs[h].obj
    IN  [W EXCEPT !.hs[h].st = "gone", !.hs[h].rel = @ + 1,
                  !.rc[o] = @ - 1, !.releases[o] = @ + 1]

\* The foreign QueryInterface: on success it hands out one more reference to
\* the same object, on failure it changes nothing.
QueryInterface(W, o, hr) ==
    IF hr_failed(hr) THEN W
    ELSE [W EXCEPT !.rc[o] = @ + 1, !.addrefs[o] = @ + 1]

\* query_interface(mut self): the foreign query, from_ptr on success, and
\* self dropped when the function returns, on either branch.
query_interface_forget(W, h, n, hr) ==
    LET o == W.hs[h].obj
        q == QueryInterface(W, o, hr)
    IN  IF hr_failed(hr) THEN [q EXCEPT !.hs[h].st = "gone"]
        ELSE drop(from_ptr(q, n, o, W.hs[h].owner), h)
query_interface(W, h, n, hr) ==
    LET o == W.hs[h].obj
        q == QueryInterface(W, o, hr)
        m == IF hr_failed(hr) THEN q ELSE from_ptr(q, n, o, W.hs[h].owner)
    IN  drop(m, h)

\* What query_interface returns: Err(hr) or Ok(the new handle).
query_interface_result(h, n, hr) ==
    IF hr_failed(hr)
    THEN [self |-> h, ok |-> FALSE, hr |-> hr, err |-> hr, new |-> 0]
    ELSE [self |-> h, ok |-> TRUE, hr |-> hr, err |-> 0, new |-> n]

QueryStatuses == {S_OK, E_NOINTERFACE}

SetWorld(W) ==
    /\ hs' = W.hs
    /\ rc' = W.rc
    /\ addrefs' = W.addrefs
    /\ releases' = W.releases

\* A foreign creation call hands the caller one reference to object o, which
\* from_ptr wraps (the caller guarantees no other handle wraps it).
HandleCreate(o, w) ==
    /\ Used(hs) # Handles
    /\ Alive(hs, o) = {}
    /\ LET h == Cardinality(Used(hs)) + 1
       IN  SetWorld(from_ptr([World EXCEPT !.rc[o] = @ + 1], h, o, w))
    /\ UNCHANGED <<qres, enumVars, descVars, timeVars, capVars>>

\* A move hands the handle to another owner; the moved-from place is not dropped.
HandleMove(h, w) ==
    /\ hs[h].st = "alive"
    /\ hs[h].owner # w
    /\ hs' = [hs EXCEPT ![h].owner = w]
    /\ UNCHANGED <<rc, addrefs, releases, qres, enumVars, descVars, timeVars, capVars>>

HandleDrop(h) ==
    /\ hs[h].st = "alive"
    /\ SetWorld(drop(World, h))
    /\ UNCHANGED <<qres, enumVars, descVars, timeVars, capVars>>

HandleQuery(h, hr) ==
    /\ hs[h].st = "alive"
    /\ Used(hs) # Handles
    /\ LET n == Cardinality(Used(hs)) + 1
       IN  /\ SetWorld(query_interface(World, h, n, hr))
           /\ qres' = query_interface_result(h, n, hr)
    /\ UNCHANGED <<enumVars, descVars, timeVars, capVars>>

----------------------------------------------------------------------------
(* get_adater_outputs: (0..).map(closure).take_while(is_some).map(unwrap)  *)
(* .collect(). Each pull of collect() runs the closure on the next index.  *)

OutputKinds == {"attached", "detached"}
EnumFailures == {DXGI_ERROR_NOT_FOUND, DXGI_ERROR_ACCESS_LOST}
Indices == 0..MaxOutputs

RECURSIVE SeqsUpTo(_, _)
SeqsUpTo(S, n) ==
    IF n = 0 THEN {<<>>}
    ELSE LET shorter == SeqsUpTo(S, n - 1)
         IN  shorter \cup {Append(q, x) : q \in {r \in shorter : Len(r) = n - 1}, x \in S}

\* The adapter's EnumOutputs(i): an output for each index it has, the failure
\* status for every index past them.
EnumOutputs(A, f, i) == IF i < Len(A) THEN S_OK ELSE f

\* GetDesc(&mut out_desc); out_desc.AttachedToDesktop != 0
AttachedToDesktop(A, i) == A[i + 1] = "attached"

\* The closure of the map: Some(handle) for an attached output, None for a
\* failed call and None for a detached output.
closure_keep_detached(A, f, i) ==
    IF hr_failed(EnumOutputs(A, f, i)) THEN "None" ELSE "Some"
closure(A, f, i) ==
    IF hr_failed(EnumOutputs(A, f, i)) THEN "None"
    ELSE IF AttachedToDesktop(A, i) THEN "Some" ELSE "None"

\* One pull of collect(): the range yields nextIdx, the closure runs on it,
\* take_while(is_some) ends the sequence at the first None, and a Some is
\* unwrapped and pushed. An output EnumOutputs returned is a raw reference
\* until from_ptr wraps it.
EnumPull ==
    /\ ~enumDone
    /\ nextIdx <= MaxOutputs
    /\ LET i == nextIdx
           got == ~hr_failed(EnumOutputs(adapter, failHr, i))
           item == closure(adapter, failHr, i)
       IN  /\ queried' = Append(queried, i)
           /\ nextIdx' = i + 1
           /\ outRefs' = [outRefs EXCEPT ![i] =
                            IF ~got THEN "none"
                            ELSE IF item = "Some" THEN "handle" ELSE "raw"]
           /\ IF item = "Some"
              THEN yielded' = Append(yielded, i) /\ enumDone' = FALSE
              ELSE yielded' = yielded /\ enumDone' = TRUE
    /\ UNCHANGED <<adapter, failHr, handleVars, descVars, timeVars, capVars>>


\* .collect() into the Vec get_adater_outputs returns: the caller receives the
\* elements when the function returns, after the last pull.
Received == IF enumDone THEN yielded ELSE <<>>

----------------------------------------------------------------------------
(* The timeout get_frame hands to AcquireNextFrame:                        *)
(* timeout.num_milliseconds() as u32. The i64 count is kept as four 16-bit *)
(* limbs in two's complement, low limb first, the u32 as two limbs.        *)

LimbBase == 2^16
Limbs == 0..(LimbBase - 1)

\* The limbs of a non-negative number below 2^31.
ToLimbs(n) == <<n % LimbBase, n \div LimbBase, 0, 0>>
\* Two's complement negation: complement every limb, add one with carry.
RECURSIVE AddOne(_, _)
AddOne(x, k) ==
    IF k > Len(x) THEN x
    ELSE IF x[k] = LimbBase - 1 THEN AddOne([x EXCEPT ![k] = 0], k + 1)
    ELSE [x EXCEPT ![k] = @ + 1]
Neg(x) == AddOne([k \in 1..Len(x) |-> LimbBase - 1 - x[k]], 1)
\* The i64 of a whole-millisecond count n, -2^31 < n < 2^31.
ToI64(n) == IF n >= 0 THEN ToLimbs(n) ELSE Neg(ToLimbs(-n))

\* `as u32` of an i64 keeps the low 32 bits.
as_u32_saturating(x) ==
    IF x[4] >= LimbBase \div 2 THEN <<0, 0>>
    ELSE IF x[3] # 0 \/ x[4] # 0 THEN <<LimbBase - 1, LimbBase - 1>>
    ELSE <<x[1], x[2]>>
as_u32(x) == <<x[1], x[2]>>

\* Durations: small counts of either sign, the ends of the u32 and i32
\* ranges, and counts with every limb at an extreme.
SmallCounts == {-65537, -65536, -2, -1, 0, 1, 1000, 65535, 65536, 2147483647}
Durations ==
    {ToI64(n) : n \in SmallCounts}
        \cup [1..4 -> {0, 1, LimbBase \div 2, LimbBase - 1}]

\* AcquireNextFrame(timeout.num_milliseconds() as u32, ..)
PassTimeout ==
    /\ passedMs = <<>>
    /\ passedMs' = as_u32(timeoutMs)
    /\ UNCHANGED <<timeoutMs, handleVars, enumVars, descVars, capVars>>

----------------------------------------------------------------------------
(* The staging description get_frame derives from the frame texture's.     *)

D3D11_USAGE_STAGING == 3
D3D11_CPU_ACCESS_READ == 131072

NoDesc == [Width |-> 0, Height |-> 0, MipLevels |-> 0, ArraySize |-> 0,
           Format |-> 0, SampleCount |-> 0, SampleQuality |-> 0, Usage |-> 0,
           BindFlags |-> 0, CPUAccessFlags |-> 0, MiscFlags |-> 0]

\* Source descriptions: usage DEFAULT..STAGING, bind flags SHADER_RESOURCE (8)
\* and RENDER_TARGET (32), CPU access WRITE (65536) and READ (131072), misc
\* flags SHARED (2) and GDI_COMPATIBLE (512).
SourceDescs ==
    [Width : 1..MaxDim, Height : 1..MaxDim, MipLevels : {1}, ArraySize : {1},
     Format : {28, 87}, SampleCount : {1}, SampleQuality : {0},
     Usage : 0..3, BindFlags : {0, 8, 32, 40},
     CPUAccessFlags : {0, 65536, 131072, 196608}, MiscFlags : {0, 2, 512}]

\* texture_desc.Usage = STAGING; .BindFlags = 0; .CPUAccessFlags = READ;
\* .MiscFlags = 0
staging_desc_keep_misc(d) ==
    [d EXCEPT !.Usage = D3D11_USAGE_STAGING, !.BindFlags = 0,
              !.CPUAccessFlags = D3D11_CPU_ACCESS_READ]
staging_desc(d) ==
    [d EXCEPT !.Usage = D3D11_USAGE_STAGING, !.BindFlags = 0,
              !.CPUAccessFlags = D3D11_CPU_ACCESS_READ, !.MiscFlags = 0]

\* GetDesc on the frame texture, the four assignments, and the description
\* handed to CreateTexture2D.
DeriveDesc ==
    /\ passedDesc = NoDesc
    /\ passedDesc' = staging_desc(srcDesc)
    /\ UNCHANGED <<srcDesc, handleVars, enumVars, timeVars, capVars>>

----------------------------------------------------------------------------
(* DuplicatedOutput: get_frame and release_frame. Output d is driven by    *)
(* its own thread (&mut self: no two calls on one output overlap); all     *)
(* outputs share one device mutex and one context mutex.                   *)

Outs == 1..NumOutputs

InGetFrame == {"acquire", "qi_texture", "lock_device", "create", "return_err",
               "evict", "qi_staging", "lock_context", "qi_frame", "copy",
               "qi_surface", "unwind_guard", "unwind_staging", "unwind_frame"}

Pending(op) == [op |-> op, kind |-> "Pending", hr |-> 0]
Ok(op)      == [op |-> op, kind |-> "Ok", hr |-> 0]
Err(op, hr) == [op |-> op, kind |-> "Err", hr |-> hr]
Panicked(op) == [op |-> op, kind |-> "Panic", hr |-> 0]
NoResult    == [op |-> "none", kind |-> "None", hr |-> 0]

\* The duplication session of the foreign subsystem: it holds at most one
\* acquired frame; acquiring while one is held and releasing while none is
\* held are refused.
AcquireStatuses(d) ==
    IF session[d] = "Acquired" THEN {DXGI_ERROR_INVALID_CALL}
    ELSE {S_OK, DXGI_ERROR_WAIT_TIMEOUT, DXGI_ERROR_ACCESS_LOST}
ReleaseStatuses(d) ==
    IF session[d] = "Acquired" THEN {S_OK} ELSE {DXGI_ERROR_INVALID_CALL}
CreateStatuses == {S_OK, E_OUTOFMEMORY}

\* The references a handle's query_interface leaves on its object: the
\* foreign query adds one on success, the consumed handle releases one.
qi_refs_leak(n, hr) == IF hr_failed(hr) THEN n - 1 ELSE n + 1
qi_refs(n, hr) == IF hr_failed(hr) THEN n - 1 ELSE n + 1 - 1

\* One entry of calls: a foreign call f on object obj that returned hr.
Call(f, obj, hr) ==
    [f |-> f, obj |-> obj, hr |-> hr, dst |-> "", src |-> "", arg |-> ""]
Release(obj) == Call("Release", obj, 0)
Query(obj, hr) == Call("QueryInterface", obj, hr)
Lock(obj) == Call("lock", obj, 0)
\* CopyResource(&mut *readable_surface, &mut *frame_texture.query_interface(..))
CopyCall == [f |-> "CopyResource", obj |-> "context", hr |-> 0,
             dst |-> "staging", src |-> "frame", arg |-> ""]
\* readable_texture.SetEvictionPriority(DXGI_RESOURCE_PRIORITY_MAXIMUM)
EvictCall == [f |-> "SetEvictionPriority", obj |-> "staging", hr |-> 0,
              dst |-> "", src |-> "", arg |-> "DXGI_RESOURCE_PRIORITY_MAXIMUM"]
Logged(d, cs) == calls' = [calls EXCEPT ![d] = @ \o cs]
Started(d) == calls' = [calls EXCEPT ![d] = <<>>]

\* The surfaces alive or in the making, over outputs 1..n: those the callers
\* keep and one for every get_frame in progress.
RECURSIVE SurfacesHeld(_)
SurfacesHeld(n) ==
    IF n = 0 THEN 0
    ELSE held[n] + (IF pc[n] \in InGetFrame THEN 1 ELSE 0) + SurfacesHeld(n - 1)

\* get_frame is entered; the blocking AcquireNextFrame call starts. The
\* surfaces of earlier calls are the caller's and may all be alive still.
GetFrameCall(d) ==
    /\ pc[d] = "idle"
    /\ SurfacesHeld(NumOutputs) < MaxSurfaces
    /\ pc' = [pc EXCEPT ![d] = "acquire"]
    /\ result' = [result EXCEPT ![d] = Pending("get_frame")]
    /\ UNCHANGED <<session, lockDev, lockCtx, poisonDev, poisonCtx,
                   frameRc, stageRc, held>>
    /\ Started(d)
    /\ UNCHANGED <<handleVars, enumVars, descVars, timeVars>>

\* AcquireNextFrame returns hr. Failed: return Err(hr). Otherwise the session
\* holds the frame and from_ptr wraps the frame resource.
AcquireNextFrame_retry(d, hr) ==
    /\ pc[d] = "acquire"
    /\ IF hr_failed(hr)
       THEN /\ pc' = [pc EXCEPT ![d] = "idle"]
            /\ result' = [result EXCEPT ![d] = Err("get_frame", hr)]
            /\ UNCHANGED <<session, frameRc>>
       ELSE /\ pc' = [pc EXCEPT ![d] = "qi_texture"]
            /\ session' = [session EXCEPT ![d] = "Acquired"]
            /\ frameRc' = [frameRc EXCEPT ![d] = @ + 1]
            /\ UNCHANGED result
    /\ UNCHANGED <<lockDev, lockCtx, poisonDev, poisonCtx, stageRc, held>>
    /\ Logged(d, <<Call("AcquireNextFrame", "session", hr)>>
                  \o (IF hr = DXGI_ERROR_WAIT_TIMEOUT
                      THEN <<Call("AcquireNextFrame", "session", hr)>> ELSE <<>>))
    /\ UNCHANGED <<handleVars, enumVars, descVars, timeVars>>
AcquireNextFrame_release_on_error(d, hr) ==
    /\ pc[d] = "acquire"
    /\ IF hr_failed(hr)
       THEN /\ pc' = [pc EXCEPT ![d] = "idle"]
            /\ result' = [result EXCEPT ![d] = Err("get_frame", hr)]
            /\ session' = [session EXCEPT ![d] = "Idle"]
            /\ UNCHANGED frameRc
       ELSE /\ pc' = [pc EXCEPT ![d] = "qi_texture"]
            /\ session' = [session EXCEPT ![d] = "Acquired"]
            /\ frameRc' = [frameRc EXCEPT ![d] = @ + 1]
            /\ UNCHANGED result
    /\ UNCHANGED <<lockDev, lockCtx, poisonDev, poisonCtx, stageRc, held>>
    /\ Logged(d, <<Call("AcquireNextFrame", "session", hr)>>
                  \o (IF hr_failed(hr) THEN <<Call("ReleaseFrame", "session", S_OK)>> ELSE <<>>))
    /\ UNCHANGED <<handleVars, enumVars, descVars, timeVars>>
AcquireNextFrame(d, hr) ==
    /\ pc[d] = "acquire"
    /\ IF hr_failed(hr)
       THEN /\ pc' = [pc EXCEPT ![d] = "idle"]
            /\ result' = [result EXCEPT ![d] = Err("get_frame", hr)]
            /\ UNCHANGED <<session, frameRc>>
       ELSE /\ pc' = [pc EXCEPT ![d] = "qi_texture"]
            /\ session' = [session EXCEPT ![d] = "Acquired"]
            /\ frameRc' = [frameRc EXCEPT ![d] = @ + 1]
            /\ UNCHANGED result
    /\ UNCHANGED <<lockDev, lockCtx, poisonDev, poisonCtx, stageRc, held>>
    /\ Logged(d, <<Call("AcquireNextFrame", "session", hr)>>)
    /\ UNCHANGED <<handleVars, enumVars, descVars, timeVars>>

\* frame_resource.query_interface(&IID_ID3D11Texture2D).unwrap(), then GetDesc
\* and the staging description. A failed query panics in unwrap.
FrameToTexture(d, hr) ==
    /\ pc[d] = "qi_texture"
    /\ frameRc' = [frameRc EXCEPT ![d] = qi_refs(@, hr)]
    /\ IF hr_failed(hr)
       THEN /\ pc' = [pc EXCEPT ![d] = "panicked"]
            /\ result' = [result EXCEPT ![d] = Panicked("get_frame")]
       ELSE /\ pc' = [pc EXCEPT ![d] = "lock_device"]
            /\ UNCHANGED result
    /\ UNCHANGED <<session, lockDev, lockCtx, poisonDev, poisonCtx, stageRc,
                   held>>
    /\ Logged(d, <<Query("frame", hr), Release("frame")>>
                  \o (IF hr_failed(hr) THEN <<>> ELSE <<Call("GetDesc", "frame", 0)>>))
    /\ UNCHANGED <<handleVars, enumVars, descVars, timeVars>>

\* self.device.lock().unwrap(): blocks until the mutex is free and takes it;
\* on a poisoned mutex lock() returns Err with the guard and unwrap panics.
LockDevice(d) ==
    /\ pc[d] = "lock_device"
    /\ lockDev = 0
    /\ lockDev' = d
    /\ pc' = [pc EXCEPT ![d] = IF poisonDev THEN "unwind_guard" ELSE "create"]
    /\ UNCHANGED <<session, lockCtx, poisonDev, poisonCtx, result, frameRc,
                   stageRc, held>>
    /\ Logged(d, <<Lock("device")>>)
    /\ UNCHANGED <<handleVars, enumVars, descVars, timeVars>>

\* CreateTexture2D returns hr and the guard is dropped at the end of the
\* statement. Failed: get_frame goes on to return Err(hr). Otherwise from_ptr
\* wraps the new staging texture.
CreateTexture2D_ignore_error(d, hr) ==
    /\ pc[d] = "create"
    /\ lockDev' = 0
    /\ pc' = [pc EXCEPT ![d] = "evict"]
    /\ stageRc' = [stageRc EXCEPT ![d] = @ + 1]
    /\ UNCHANGED <<result, frameRc>>
    /\ UNCHANGED <<session, lockCtx, poisonDev, poisonCtx, held>>
    /\ Logged(d, <<Call("CreateTexture2D", "device", hr)>>)
    /\ UNCHANGED <<handleVars, enumVars, descVars, timeVars>>
CreateTexture2D(d, hr) ==
    /\ pc[d] = "create"
    /\ lockDev' = 0
    /\ IF hr_failed(hr)
       THEN /\ pc' = [pc EXCEPT ![d] = "return_err"]
            /\ UNCHANGED stageRc
       ELSE /\ pc' = [pc EXCEPT ![d] = "evict"]
            /\ stageRc' = [stageRc EXCEPT ![d] = @ + 1]
    /\ UNCHANGED <<session, lockCtx, poisonDev, poisonCtx, result, frameRc,
                   held>>
    /\ Logged(d, <<Call("CreateTexture2D", "device", hr)>>)
    /\ UNCHANGED <<handleVars, enumVars, descVars, timeVars>>

\* if hr_failed(hr) { return Err(hr); } after CreateTexture2D: the return
\* drops the frame texture, the device guard being gone already.
ReturnErr(d) ==
    /\ pc[d] = "return_err"
    /\ pc' = [pc EXCEPT ![d] = "idle"]
    /\ result' = [result EXCEPT ![d] = Err("get_frame", calls[d][Len(calls[d])].hr)]
    /\ frameRc' = [frameRc EXCEPT ![d] = @ - 1]
    /\ UNCHANGED <<session, lockDev, lockCtx, poisonDev, poisonCtx, stageRc,
                   held>>
    /\ Logged(d, <<Release("frame")>>)
    /\ UNCHANGED <<handleVars, enumVars, descVars, timeVars>>

\* readable_texture.SetEvictionPriority(DXGI_RESOURCE_PRIORITY_MAXIMUM)
SetEvictionPriority(d) ==
    /\ pc[d] = "evict"
    /\ pc' = [pc EXCEPT ![d] = "qi_staging"]
    /\ UNCHANGED <<session, lockDev, lockCtx, poisonDev, poisonCtx, result,
                   frameRc, stageRc, held>>
    /\ Logged(d, <<EvictCall>>)
    /\ UNCHANGED <<handleVars, enumVars, descVars, timeVars>>

\* readable_texture.query_interface(&IID_ID3D11Resource).unwrap(); a failed
\* query panics and the unwinding goes on to drop the frame texture.
StagingToResource(d, hr) ==
    /\ pc[d] = "qi_staging"
    /\ stageRc' = [stageRc EXCEPT ![d] = qi_refs(@, hr)]
    /\ pc' = [pc EXCEPT ![d] = IF hr_failed(hr) THEN "unwind_frame"
                                ELSE "lock_context"]
    /\ UNCHANGED <<session, lockDev, lockCtx, poisonDev, poisonCtx, result,
                   frameRc, held>>
    /\ Logged(d, <<Query("staging", hr), Release("staging")>>)
    /\ UNCHANGED <<handleVars, enumVars, descVars, timeVars>>

\* self.device_context.lock().unwrap(): the receiver of the CopyResource
\* call, evaluated before its arguments; blocks until the mutex is free and
\* takes it. On a poisoned mutex lock() returns Err with the guard and unwrap
\* panics.
LockContext(d) ==
    /\ pc[d] = "lock_context"
    /\ lockCtx = 0
    /\ lockCtx' = d
    /\ pc' = [pc EXCEPT ![d] = IF poisonCtx THEN "unwind_guard" ELSE "qi_frame"]
    /\ UNCHANGED <<session, lockDev, poisonDev, poisonCtx, result, frameRc,
                   stageRc, held>>
    /\ Logged(d, <<Lock("context")>>)
    /\ UNCHANGED <<handleVars, enumVars, descVars, timeVars>>

\* frame_texture.query_interface(&IID_ID3D11Resource).unwrap(), the second
\* argument of CopyResource, evaluated with the context guard alive. A failed
\* query panics with the guard still alive.
FrameToResource(d, hr) ==
    /\ pc[d] = "qi_frame"
    /\ frameRc' = [frameRc EXCEPT ![d] = qi_refs(@, hr)]
    /\ pc' = [pc EXCEPT ![d] = IF hr_failed(hr) THEN "unwind_guard" ELSE "copy"]
    /\ UNCHANGED <<session, lockDev, lockCtx, poisonDev, poisonCtx, result,
                   stageRc, held>>
    /\ Logged(d, <<Query("frame", hr), Release("frame")>>)
    /\ UNCHANGED <<handleVars, enumVars, descVars, timeVars>>

\* Unwinding from a panic raised with a MutexGuard alive: the guard, a
\* temporary of the statement, is dropped first; dropped by a panicking
\* thread it poisons the mutex and unlocks it. Under the context guard the
\* staging resource is a live local, under the device guard only the frame
\* texture is.
UnwindGuard(d) ==
    /\ pc[d] = "unwind_guard"
    /\ lockDev' = IF lockDev = d THEN 0 ELSE lockDev
    /\ lockCtx' = IF lockCtx = d THEN 0 ELSE lockCtx
    /\ poisonDev' = (poisonDev \/ lockDev = d)
    /\ poisonCtx' = (poisonCtx \/ lockCtx = d)
    /\ pc' = [pc EXCEPT ![d] = IF lockCtx = d THEN "unwind_staging"
                                ELSE "unwind_frame"]
    /\ UNCHANGED <<session, result, frameRc, stageRc, held, calls>>
    /\ UNCHANGED <<handleVars, enumVars, descVars, timeVars>>

\* Unwinding drops readable_surface; frame_texture is dropped next unless
\* query_interface consumed it.
UnwindStaging(d) ==
    /\ pc[d] = "unwind_staging"
    /\ stageRc' = [stageRc EXCEPT ![d] = @ - 1]
    /\ IF frameRc[d] > 0
       THEN /\ pc' = [pc EXCEPT ![d] = "unwind_frame"]
            /\ UNCHANGED result
       ELSE /\ pc' = [pc EXCEPT ![d] = "panicked"]
            /\ result' = [result EXCEPT ![d] = Panicked("get_frame")]
    /\ UNCHANGED <<session, lockDev, lockCtx, poisonDev, poisonCtx, frameRc,
                   held>>
    /\ Logged(d, <<Release("staging")>>)
    /\ UNCHANGED <<handleVars, enumVars, descVars, timeVars>>

\* Unwinding drops frame_texture, the last live local; the panic leaves
\* get_frame.
UnwindFrame(d) ==
    /\ pc[d] = "unwind_frame"
    /\ frameRc' = [frameRc EXCEPT ![d] = @ - 1]
    /\ pc' = [pc EXCEPT ![d] = "panicked"]
    /\ result' = [result EXCEPT ![d] = Panicked("get_frame")]
    /\ UNCHANGED <<session, lockDev, lockCtx, poisonDev, poisonCtx, stageRc,
                   held>>
    /\ Logged(d, <<Release("frame")>>)
    /\ UNCHANGED <<handleVars, enumVars, descVars, timeVars>>

\* CopyResource returns; at the end of the statement the temporary frame
\* resource handle is dropped and then the context guard.
CopyResource_keep_guard(d) ==
    /\ pc[d] = "copy"
    /\ pc' = [pc EXCEPT ![d] = "qi_surface"]
    /\ frameRc' = [frameRc EXCEPT ![d] = @ - 1]
    /\ UNCHANGED <<session, lockDev, lockCtx, poisonDev, poisonCtx, result,
                   stageRc, held>>
    /\ Logged(d, <<CopyCall, Release("frame")>>)
    /\ UNCHANGED <<handleVars, enumVars, descVars, timeVars>>
CopyResource(d) ==
    /\ pc[d] = "copy"
    /\ pc' = [pc EXCEPT ![d] = "qi_surface"]
    /\ frameRc' = [frameRc EXCEPT ![d] = @ - 1]
    /\ lockCtx' = 0
    /\ UNCHANGED <<session, lockDev, poisonDev, poisonCtx, result, stageRc,
                   held>>
    /\ Logged(d, <<CopyCall, Release("frame")>>)
    /\ UNCHANGED <<handleVars, enumVars, descVars, timeVars>>

\* readable_surface.query_interface(&IID_IDXGISurface1): the value get_frame
\* returns, Ok(surface) or Err(hr).
StagingToSurface(d, hr) ==
    /\ pc[d] = "qi_surface"
    /\ pc' = [pc EXCEPT ![d] = "idle"]
    /\ stageRc' = [stageRc EXCEPT ![d] = qi_refs(@, hr)]
    /\ IF hr_failed(hr)
       THEN /\ result' = [result EXCEPT ![d] = Err("get_frame", hr)]
            /\ UNCHANGED held
       ELSE /\ result' = [result EXCEPT ![d] = Ok("get_frame")]
            /\ held' = [held EXCEPT ![d] = @ + 1]
    /\ UNCHANGED <<session, lockDev, lockCtx, poisonDev, poisonCtx, frameRc>>
    /\ Logged(d, <<Query("staging", hr), Release("staging")>>)
    /\ UNCHANGED <<handleVars, enumVars, descVars, timeVars>>

\* release_frame is entered; the ReleaseFrame call starts.
ReleaseFrameCall(d) ==
    /\ pc[d] = "idle"
    /\ pc' = [pc EXCEPT ![d] = "release"]
    /\ result' = [result EXCEPT ![d] = Pending("release_frame")]
    /\ UNCHANGED <<session, lockDev, lockCtx, poisonDev, poisonCtx,
                   frameRc, stageRc, held>>
    /\ Started(d)
    /\ UNCHANGED <<handleVars, enumVars, descVars, timeVars>>

\* ReleaseFrame returns hr: if hr_failed(hr) { Err(hr) } else { Ok(()) }. The
\* session gives its frame up when the call succeeds.
ReleaseFrame_swallow(d, hr) ==
    /\ pc[d] = "release"
    /\ pc' = [pc EXCEPT ![d] = "idle"]
    /\ result' = [result EXCEPT ![d] = Ok("release_frame")]
    /\ session' = IF hr_failed(hr) THEN session ELSE [session EXCEPT ![d] = "Idle"]
    /\ UNCHANGED <<lockDev, lockCtx, poisonDev, poisonCtx, frameRc, stageRc,
                   held>>
    /\ Logged(d, <<Call("ReleaseFrame", "session", hr)>>)
    /\ UNCHANGED <<handleVars, enumVars, descVars, timeVars>>
ReleaseFrame(d, hr) ==
    /\ pc[d] = "release"
    /\ pc' = [pc EXCEPT ![d] = "idle"]
    /\ IF hr_failed(hr)
       THEN /\ result' = [result EXCEPT ![d] = Err("release_frame", hr)]
            /\ UNCHANGED session
       ELSE /\ result' = [result EXCEPT ![d] = Ok("release_frame")]
            /\ session' = [session EXCEPT ![d] = "Idle"]
    /\ UNCHANGED <<lockDev, lockCtx, poisonDev, poisonCtx, frameRc, stageRc,
                   held>>
    /\ Logged(d, <<Call("ReleaseFrame", "session", hr)>>)
    /\ UNCHANGED <<handleVars, enumVars, descVars, timeVars>>

\* The caller drops a surface get_frame returned: Drop::drop releases it.
DropSurface(d) ==
    /\ pc[d] = "idle"
    /\ held[d] > 0
    /\ held' = [held EXCEPT ![d] = @ - 1]
    /\ stageRc' = [stageRc EXCEPT ![d] = @ - 1]
    /\ UNCHANGED <<pc, session, lockDev, lockCtx, poisonDev, poisonCtx, result,
                   frameRc>>
    /\ UNCHANGED calls
    /\ UNCHANGED <<handleVars, enumVars, descVars, timeVars>>

\* The steps that are the caller's choice: entering get_frame or
\* release_frame, dropping a surface. Nothing makes a caller take them.
Caller(d) ==
    \/ GetFrameCall(d)
    \/ ReleaseFrameCall(d)
    \/ DropSurface(d)

\* The steps of a thread inside get_frame or release_frame.
Running(d) ==
    \/ \E hr \in AcquireStatuses(d) : AcquireNextFrame(d, hr)
    \/ \E hr \in QueryStatuses : FrameToTexture(d, hr)
    \/ LockDevice(d)
    \/ \E hr \in CreateStatuses : CreateTexture2D(d, hr)
    \/ ReturnErr(d)
    \/ SetEvictionPriority(d)
    \/ \E hr \in QueryStatuses : StagingToResource(d, hr)
    \/ LockContext(d)
    \/ \E hr \in QueryStatuses : FrameToResource(d, hr)
    \/ UnwindGuard(d)
    \/ UnwindStaging(d)
    \/ UnwindFrame(d)
    \/ CopyResource(d)
    \/ \E hr \in QueryStatuses : StagingToSurface(d, hr)
    \/ \E hr \in ReleaseStatuses(d) : ReleaseFrame(d, hr)

\* Every step output d's thread can take.
Step(d) == Caller(d) \/ Running(d)

----------------------------------------------------------------------------
(* Initial values of each group of variables.                              *)

HandleInit ==
    /\ hs = [h \in Handles |-> NoHandle]
    /\ rc = [o \in Objects |-> 0]
    /\ addrefs = [o \in Objects |-> 0]
    /\ releases = [o \in Objects |-> 0]
    /\ qres = NoQuery

EnumInit ==
    /\ adapter = <<>>
    /\ failHr = DXGI_ERROR_NOT_FOUND
    /\ nextIdx = 0
    /\ queried = <<>>
    /\ yielded = <<>>
    /\ outRefs = [i \in Indices |-> "none"]
    /\ enumDone = FALSE

DescInit ==
    /\ srcDesc = NoDesc
    /\ passedDesc = NoDesc

TimeInit ==
    /\ timeoutMs = <<0, 0, 0, 0>>
    /\ passedMs = <<>>

CapInit ==
    /\ pc = [d \in Outs |-> "idle"]
    /\ session = [d \in Outs |-> "Idle"]
    /\ lockDev = 0
    /\ lockCtx = 0
    /\ poisonDev = FALSE
    /\ poisonCtx = FALSE
    /\ result = [d \in Outs |-> NoResult]
    /\ frameRc = [d \in Outs |-> 0]
    /\ stageRc = [d \in Outs |-> 0]
    /\ held = [d \in Outs |-> 0]
    /\ calls = [d \in Outs |-> <<>>]

----------------------------------------------------------------------------
(* The specifications.                                                     *)

\* UniqueCOMPtr over NumObjects foreign objects.
InitHandle == HandleInit /\ EnumInit /\ DescInit /\ TimeInit /\ CapInit
NextHandle ==
    \/ \E o \in Objects, w \in Owners : HandleCreate(o, w)
    \/ \E h \in Handles, w \in Owners : HandleMove(h, w)
    \/ \E h \in Handles : HandleDrop(h)
    \/ \E h \in Handles, hr \in QueryStatuses : HandleQuery(h, hr)
SpecHandle == InitHandle /\ [][NextHandle]_vars

\* get_adater_outputs on every adapter of up to MaxOutputs outputs.
InitEnum ==
    /\ adapter \in SeqsUpTo(OutputKinds, MaxOutputs)
    /\ failHr \in EnumFailures
    /\ nextIdx = 0
    /\ queried = <<>>
    /\ yielded = <<>>
    /\ outRefs = [i \in Indices |-> "none"]
    /\ enumDone = FALSE
    /\ HandleInit /\ DescInit /\ TimeInit /\ CapInit
NextEnum == EnumPull
SpecEnum == InitEnum /\ [][NextEnum]_vars

\* The staging description for every source description.
InitDesc ==
    /\ srcDesc \in SourceDescs
    /\ passedDesc = NoDesc
    /\ HandleInit /\ EnumInit /\ TimeInit /\ CapInit
NextDesc == DeriveDesc
SpecDesc == InitDesc /\ [][NextDesc]_vars

\* get_frame and release_frame on NumOutputs Duplicated Outputs.
InitTimeout ==
    /\ timeoutMs \in Durations
    /\ passedMs = <<>>
    /\ HandleInit /\ EnumInit /\ DescInit /\ CapInit
NextTimeout == PassTimeout
SpecTimeout == InitTimeout /\ [][NextTimeout]_vars

Init == HandleInit /\ EnumInit /\ DescInit /\ TimeInit /\ CapInit
Next == \E d \in Outs : Step(d)
Spec == Init /\ [][Next]_vars

\* Spec with the scheduling the threads get: a thread inside a call that
\* can go on without interruption eventually does (the scheduler runs each
\* runnable thread and the foreign calls return). Nothing more is assumed of
\* lock(): std::sync::Mutex promises no order among waiters, so a thread
\* waiting for a mutex that others keep retaking may wait for ever; and no
\* caller is made to call.
FairSpec ==
    /\ Spec
    /\ \A d \in Outs : WF_vars(Running(d))

----------------------------------------------------------------------------
(* The claims.                                                             *)

\* C1: every constructed handle makes exactly one Release call on its
\* object: none while it is alive, one once it is dropped or consumed, never
\* a second; an object's reference count is never negative and equals the
\* number of live handles on it, so nothing is left unreleased once all
\* handles are gone.
C1_ExactlyOneRelease ==
    /\ \A h \in Handles :
         /\ hs[h].st \in {"unused", "alive"} => hs[h].rel = 0
         /\ hs[h].st = "gone" => hs[h].rel = 1
    /\ \A o \in Objects :
         /\ rc[o] >= 0
         /\ rc[o] = Cardinality(Alive(hs, o))
         /\ releases[o] = Cardinality(Gone(hs, o))

\* An object whose handles were created, moved, queried (with success and
\* with failure) and dropped, and are all gone.
C1_Witness ==
    \E o \in Objects :
        /\ Alive(hs, o) = {}
        /\ rc[o] = 0
        /\ Cardinality(Gone(hs, o)) >= 3
        /\ addrefs[o] >= 1
        /\ \E h \in Gone(hs, o) : hs[h].owner = "b"
        /\ qres.self \in Gone(hs, o) /\ ~qres.ok

\* C2: query_interface consumes its handle. When the foreign query succeeds
\* it returns a handle on the same object and the object's count is
\* unchanged (one increment, one release); when it fails it returns Err with
\* the foreign status and the count drops by exactly one, with no increment.
C2_QueryInterface ==
    [][qres' # qres =>
        LET q == qres'
            o == hs[q.self].obj
        IN  /\ hs[q.self].st = "alive"
            /\ hs'[q.self].st = "gone"
            /\ releases'[o] = releases[o] + 1
            /\ \A x \in Objects \ {o} : rc'[x] = rc[x]
            /\ IF hr_failed(q.hr)
               THEN /\ ~q.ok
                    /\ q.err = q.hr
                    /\ rc'[o] = rc[o] - 1
                    /\ addrefs'[o] = addrefs[o]
                    /\ Alive(hs', o) = Alive(hs, o) \ {q.self}
               ELSE /\ q.ok
                    /\ hs[q.new].st = "unused"
                    /\ hs'[q.new].st = "alive"
                    /\ hs'[q.new].obj = o
                    /\ rc'[o] = rc[o]
                    /\ addrefs'[o] = addrefs[o] + 1
    ]_vars

\* A failed query_interface on an object that an earlier query succeeded on.
C2_Witness ==
    /\ qres.self # 0
    /\ ~qres.ok
    /\ qres.err = E_NOINTERFACE
    /\ hs[qres.self].st = "gone"
    /\ addrefs[hs[qres.self].obj] >= 1
    /\ rc[hs[qres.self].obj] = 0

\* What a misused call must leave as it was.
SessionUntouched ==
    /\ session' = session
    /\ lockDev' = lockDev /\ lockCtx' = lockCtx
    /\ poisonDev' = poisonDev /\ poisonCtx' = poisonCtx
    /\ frameRc' = frameRc /\ stageRc' = stageRc /\ held' = held

\* C3: get_frame on a session that still holds a frame, and release_frame on
\* a session that holds none, return the foreign error as Err and change
\* nothing; a release_frame on a held frame returns Ok and frees it, and a
\* get_frame on an idle session gets whatever the acquire call reports, in
\* every state, those that follow a misuse included.
C3_MisuseHarmless ==
    [][\A d \in Outs :
        /\ (pc[d] = "acquire" /\ pc'[d] # "acquire" /\ session[d] = "Acquired")
            => /\ result'[d] = Err("get_frame", DXGI_ERROR_INVALID_CALL)
               /\ pc'[d] = "idle"
               /\ SessionUntouched
        /\ (pc[d] = "release" /\ pc'[d] # "release" /\ session[d] = "Idle")
            => /\ result'[d] = Err("release_frame", DXGI_ERROR_INVALID_CALL)
               /\ pc'[d] = "idle"
               /\ SessionUntouched
        /\ (pc[d] = "release" /\ pc'[d] # "release" /\ session[d] = "Acquired")
            => /\ result'[d] = Ok("release_frame")
               /\ session'[d] = "Idle"
        /\ (pc[d] = "acquire" /\ pc'[d] # "acquire" /\ session[d] = "Idle")
            => \/ pc'[d] = "qi_texture" /\ session'[d] = "Acquired"
               \/ /\ pc'[d] = "idle"
                  /\ session'[d] = "Idle"
                  /\ result'[d] \in {Err("get_frame", DXGI_ERROR_WAIT_TIMEOUT),
                                     Err("get_frame", DXGI_ERROR_ACCESS_LOST)}
    ]_vars

\* Both misuses have been refused: a get_frame on a session that holds a
\* frame, the surface of the earlier call alive, and a release_frame on a
\* session that holds none.
C3_Witness ==
    \E d, e \in Outs :
        /\ pc[d] = "idle"
        /\ result[d] = Err("get_frame", DXGI_ERROR_INVALID_CALL)
        /\ session[d] = "Acquired"
        /\ held[d] = 1
        /\ pc[e] = "idle"
        /\ result[e] = Err("release_frame", DXGI_ERROR_INVALID_CALL)
        /\ session[e] = "Idle"

\* C4 (as claimed): a get_frame entered with no frame pending that returns
\* Err leaves no frame pending; a get_frame that returns Err acquires nothing.
C4_FailedGetFrameHoldsNoFrame ==
    [][\A d \in Outs :
        (pc[d] \in InGetFrame /\ pc'[d] = "idle" /\ result'[d].kind = "Err")
            => \/ session'[d] = "Idle"
               \/ pc[d] = "acquire" /\ session[d] = "Acquired"
    ]_vars

RECURSIVE CountAttached(_)
CountAttached(A) ==
    IF A = <<>> THEN 0
    ELSE (IF Head(A) = "attached" THEN 1 ELSE 0) + CountAttached(Tail(A))

\* C5 (as claimed): every output returned is attached, and as many outputs
\* are returned as the adapter has attached outputs below its first
\* not-found index; a detached output does not end the sequence.
C5_AllAttachedReturned ==
    enumDone =>
        /\ \A k \in 1..Len(yielded) : adapter[yielded[k] + 1] = "attached"
        /\ Len(yielded) = CountAttached(adapter)

\* C6 (as claimed): enumeration stops at the first index whose EnumOutputs
\* call fails: no index beyond it is queried, and when collect() has
\* returned the last index queried is that one.
C6_StopsAtFirstFailure ==
    /\ \A k \in 1..Len(queried) : queried[k] <= Len(adapter)
    /\ enumDone =>
         /\ queried # <<>>
         /\ queried[Len(queried)] = Len(adapter)
         /\ hr_failed(EnumOutputs(adapter, failHr, queried[Len(queried)]))

\* C7: outputs are yielded in strictly increasing index order, each index at
\* most once; an adapter with attached outputs at 0 and 1, a detached one at
\* 2 and not-found at 3 yields exactly index 0 then index 1.
C7_IndexOrder ==
    /\ \A j, k \in 1..Len(yielded) : j < k => yielded[j] < yielded[k]
    /\ \A k \in 1..Len(yielded) : yielded[k] \in 0..(Len(adapter) - 1)
    /\ (enumDone /\ adapter = <<"attached", "attached", "detached">>)
         => yielded = <<0, 1>>

\* The scenario of C7, enumerated to its end.
C7_Witness ==
    /\ enumDone
    /\ adapter = <<"attached", "attached", "detached">>
    /\ failHr = DXGI_ERROR_NOT_FOUND
    /\ Len(yielded) = 2

\* C8: the description handed to CreateTexture2D has usage staging, no bind
\* flags, no misc flags and exactly the CPU-read flag; every other field is
\* the source's.
C8_StagingDesc ==
    passedDesc # NoDesc =>
        /\ passedDesc.Usage = D3D11_USAGE_STAGING
        /\ passedDesc.BindFlags = 0
        /\ passedDesc.MiscFlags = 0
        /\ passedDesc.CPUAccessFlags = D3D11_CPU_ACCESS_READ
        /\ \A f \in {"Width", "Height", "MipLevels", "ArraySize", "Format",
                     "SampleCount", "SampleQuality"} :
              passedDesc[f] = srcDesc[f]

\* A derived description whose source had render-target and shader-resource
\* bind flags, a misc flag, CPU-write access and default usage.
C8_Witness ==
    /\ passedDesc # NoDesc
    /\ srcDesc.BindFlags = 40
    /\ srcDesc.MiscFlags = 2
    /\ srcDesc.CPUAccessFlags = 65536
    /\ srcDesc.Usage = 0
    /\ srcDesc.Width = 2 /\ srcDesc.Height = 1

\* The outputs whose thread is inside the call into the shared context, and
\* inside the call into the shared device.
InContextCall == {d \in Outs : pc[d] = "copy"}
InDeviceCall  == {d \in Outs : pc[d] = "create"}

NoOverlap ==
    /\ Cardinality(InContextCall) <= 1
    /\ Cardinality(InDeviceCall) <= 1
    /\ \A d \in InContextCall : lockCtx = d
    /\ \A d \in InDeviceCall : lockDev = d

\* C9: under every interleaving of get_frame calls on outputs sharing one
\* device and one context, no two calls into the context overlap, no two
\* calls into the device overlap, and every get_frame that was entered
\* completes: it returns.
C9_SerializedAndComplete ==
    /\ []NoOverlap
    /\ \A d \in Outs : (pc[d] \in InGetFrame) ~> (pc[d] = "idle")

\* No lock is held by a thread that is outside get_frame, inside the
\* blocking acquire call, or inside release_frame.
NoLockOutsideCalls ==
    \A d \in Outs :
        pc[d] \in {"idle", "acquire", "release", "panicked"}
            => lockDev # d /\ lockCtx # d

\* C10: each lock is held only while its one foreign call runs,
\* the device lock during CreateTexture2D and the context lock during
\* CopyResource, and by no thread outside those calls.
C10_LockOnlyDuringItsCall ==
    /\ lockDev # 0 => pc[lockDev] = "create"
    /\ lockCtx # 0 => pc[lockCtx] = "copy"
    /\ NoLockOutsideCalls

(***************************************************************************)
(* C11: when AcquireNextFrame fails (a timeout included) get_frame returns *)
(* Err with exactly that status, has issued the acquire call exactly once  *)
(* and has made no other foreign call and no lock() call.                  *)
(***************************************************************************)
AcquireFailed(d) ==
    /\ calls[d] # <<>>
    /\ calls[d][1].f = "AcquireNextFrame"
    /\ calls[d][1].hr < 0
C11_AcquireFailureReturnsAtOnce ==
    \A d \in Outs :
        AcquireFailed(d) =>
            /\ Len(calls[d]) = 1
            /\ pc[d] = "idle"
            /\ result[d] = Err("get_frame", calls[d][1].hr)
            /\ lockDev # d /\ lockCtx # d
C11_Witness ==
    \E d \in Outs :
        /\ AcquireFailed(d)
        /\ calls[d][1].hr = DXGI_ERROR_WAIT_TIMEOUT
        /\ result[d] = Err("get_frame", DXGI_ERROR_WAIT_TIMEOUT)


(***************************************************************************)
(* C12: every fallible step of get_frame, the four capability queries      *)
(* included, either succeeds or makes get_frame return Err with that       *)
(* step's status; get_frame never panics on a failed step.                 *)
(***************************************************************************)
FailedSteps(d) ==
    {i \in 1..Len(calls[d]) :
        /\ calls[d][i].f \in {"AcquireNextFrame", "QueryInterface", "CreateTexture2D"}
        /\ calls[d][i].hr < 0}
C12_FailedStepReturnsErr ==
    \A d \in Outs :
        pc[d] \notin InGetFrame =>
            /\ result[d].op = "get_frame" => result[d].kind # "Panic"
            /\ \A i \in FailedSteps(d) :
                  result[d] = Err("get_frame", calls[d][i].hr)


(***************************************************************************)
(* C13: each release_frame call issues ReleaseFrame exactly once and       *)
(* nothing else, takes no lock, returns Ok(()) exactly when the status is  *)
(* non-negative and otherwise Err with that status.                        *)
(***************************************************************************)
C13_ReleaseFrameOnce ==
    \A d \in Outs :
        /\ pc[d] = "release" =>
              calls[d] = <<>> /\ lockDev # d /\ lockCtx # d
        /\ (result[d].op = "release_frame" /\ pc[d] # "release") =>
              /\ Len(calls[d]) = 1
              /\ calls[d][1].f = "ReleaseFrame"
              /\ calls[d][1].obj = "session"
              /\ result[d] = Ok("release_frame") <=> calls[d][1].hr >= 0
              /\ calls[d][1].hr < 0 => result[d] = Err("release_frame", calls[d][1].hr)
              /\ lockDev # d /\ lockCtx # d
C13_Witness ==
    \E d, e \in Outs :
        /\ result[d] = Ok("release_frame")
        /\ calls[d] = <<Call("ReleaseFrame", "session", S_OK)>>
        /\ result[e] = Err("release_frame", DXGI_ERROR_INVALID_CALL)
        /\ calls[e] = <<Call("ReleaseFrame", "session", DXGI_ERROR_INVALID_CALL)>>


(***************************************************************************)
(* C15: within one get_frame call the foreign calls AcquireNextFrame,      *)
(* CreateTexture2D, SetEvictionPriority(maximum), CopyResource happen in   *)
(* that order and each at most once; the copy comes only after a           *)
(* successful acquire and a successful creation, from the frame into the   *)
(* staging object; a failed creation returns its status at once with no    *)
(* priority call and no copy.                                              *)
(***************************************************************************)
StepOrder == <<"AcquireNextFrame", "CreateTexture2D", "SetEvictionPriority",
               "CopyResource">>
IsStep(c) == \E k \in 1..Len(StepOrder) : c.f = StepOrder[k]
StepsOf(d) == SelectSeq(calls[d], IsStep)
C15_FixedCallOrder ==
    \A d \in Outs :
        result[d].op = "get_frame" =>
            LET st == StepsOf(d) IN
            /\ Len(st) <= Len(StepOrder)
            /\ \A k \in 1..Len(st) : st[k].f = StepOrder[k]
            /\ \A k \in 1..Len(st) : st[k].hr < 0 => k = Len(st)
            /\ Len(st) >= 3 => st[3] = EvictCall
            /\ Len(st) = 4 =>
                  /\ st[1].hr >= 0 /\ st[2].hr >= 0
                  /\ st[4].dst = "staging" /\ st[4].src = "frame"
            /\ (Len(st) = 2 /\ st[2].hr < 0) =>
                  /\ pc[d] \in {"return_err", "idle"}
                  /\ pc[d] = "idle" =>
                        /\ result[d] = Err("get_frame", st[2].hr)
                        /\ calls[d][Len(calls[d])] = Release("frame")
C15_Witness ==
    \E d, e \in Outs :
        /\ Len(StepsOf(d)) = 4
        /\ result[d] = Ok("get_frame")
        /\ Len(StepsOf(e)) = 2
        /\ result[e] = Err("get_frame", E_OUTOFMEMORY)


(***************************************************************************)
(* C18: get_frame is reference-balanced on every return path. Returning    *)
(* Ok, every reference taken on the frame resource has been released and   *)
(* the only live reference on the staging object is the returned           *)
(* surface's; returning Err after a successful acquire, every reference    *)
(* obtained on the frame resource and the staging texture has been         *)
(* released exactly once.                                                  *)
(***************************************************************************)
Obtained(d, obj, maker) ==
    Cardinality({i \in 1..Len(calls[d]) :
        /\ calls[d][i].hr >= 0
        /\ \/ calls[d][i].f = maker
           \/ calls[d][i].f = "QueryInterface" /\ calls[d][i].obj = obj})
Released(d, obj) ==
    Cardinality({i \in 1..Len(calls[d]) : calls[d][i] = Release(obj)})
Returned(d) ==
    /\ pc[d] = "idle"
    /\ result[d].op = "get_frame"
    /\ result[d].kind \in {"Ok", "Err"}
C18_ReferenceBalanced ==
    \A d \in Outs :
        /\ frameRc[d] >= 0 /\ stageRc[d] >= 0
        /\ Returned(d) =>
              /\ frameRc[d] = 0
              /\ stageRc[d] = held[d]
              /\ Released(d, "frame") = Obtained(d, "frame", "AcquireNextFrame")
              /\ Released(d, "staging") + (IF result[d].kind = "Ok" THEN 1 ELSE 0)
                    = Obtained(d, "staging", "CreateTexture2D")
C18_Witness ==
    \E d, e \in Outs :
        /\ Returned(d) /\ result[d].kind = "Ok" /\ held[d] = 2
        /\ Released(d, "frame") = 3 /\ Released(d, "staging") = 2
        /\ Returned(e) /\ result[e] = Err("get_frame", E_NOINTERFACE)
        /\ Released(e, "frame") = 3 /\ Released(e, "staging") = 2


(***************************************************************************)
(* C20: a failure inside get_frame on one output, a capability query       *)
(* failing under the context lock included, never leaves the shared        *)
(* device or context lock unusable: a later get_frame on another output    *)
(* can still take both locks and complete.                                 *)
(***************************************************************************)
LockPanicked(d) ==
    /\ pc[d] = "panicked"
    /\ calls[d] # <<>>
    /\ \E i \in 1..Len(calls[d]) :
          /\ calls[d][i].f = "lock"
          /\ \A j \in i + 1..Len(calls[d]) : calls[d][j].f = "Release"
C20_LocksStayUsable ==
    /\ ~poisonDev
    /\ ~poisonCtx
    /\ \A d \in Outs : ~LockPanicked(d)


(***************************************************************************)
(* C19: every output object a successful EnumOutputs call hands to the     *)
(* enumerator is either returned wrapped in a handle or released by the    *)
(* enumerator: when enumeration finishes no output reference (one for a    *)
(* detached output in particular) is left neither owned nor released.      *)
(***************************************************************************)
C19_NoOutputLeaked ==
    enumDone => \A i \in Indices : outRefs[i] # "raw"

(***************************************************************************)
(* C14: enumeration is lazy towards the consumer, no EnumOutputs           *)
(* call for a later index happens before the consumer has received the     *)
(* elements for earlier indices.                                           *)
(***************************************************************************)
C14_LazyTowardsConsumer ==
    \A k \in 1..Len(queried) :
        \A j \in 1..Len(yielded) :
            yielded[j] < queried[k] =>
                j <= Len(Received) /\ Received[j] = yielded[j]



(***************************************************************************)
(* C16: the timeout passed to AcquireNextFrame is the duration's           *)
(* whole-millisecond count mod 2^32: a count in 0..2^32-1 is passed        *)
(* unchanged, a negative or larger count wraps, and -1 ms is passed as     *)
(* 4294967295 (both limbs 65535).                                          *)
(***************************************************************************)
InU32Range(x) == x[3] = 0 /\ x[4] = 0
Widen(u) == <<u[1], u[2], 0, 0>>
\* x - y is a multiple of 2^32: the low 32 bits agree.
CongruentMod2_32(x, y) == x[1] = y[1] /\ x[2] = y[2]
U32Max == <<LimbBase - 1, LimbBase - 1>>
C16_TimeoutMod2_32 ==
    passedMs # <<>> =>
        /\ passedMs \in [1..2 -> Limbs]
        /\ CongruentMod2_32(Widen(passedMs), timeoutMs)
        /\ InU32Range(timeoutMs) => Widen(passedMs) = timeoutMs
        /\ timeoutMs = ToI64(-1) => passedMs = U32Max
        /\ timeoutMs = ToI64(1000) => passedMs = <<1000, 0>>
        /\ timeoutMs = ToI64(-2) => passedMs = <<LimbBase - 2, LimbBase - 1>>
        /\ timeoutMs = <<1, 0, 1, 0>> => passedMs = <<1, 0>>
C16_Witness ==
    /\ timeoutMs = ToI64(-1)
    /\ timeoutMs = <<65535, 65535, 65535, 65535>>
    /\ passedMs = <<65535, 65535>>


(***************************************************************************)
(* C17: no thread ever holds the device lock and the context lock at the   *)
(* same time, and no thread requests a lock while holding one; so threads  *)
(* calling get_frame and release_frame on outputs sharing one device and   *)
(* context never deadlock on these locks, and every thread waiting for a   *)
(* lock eventually gets it.                                                *)
(***************************************************************************)
AtLock == {"lock_device", "lock_context"}
NoNestedLocks ==
    \A d \in Outs :
        /\ ~(lockDev = d /\ lockCtx = d)
        /\ pc[d] \in AtLock => lockDev # d /\ lockCtx # d
        /\ pc[d] = "release" => lockDev # d /\ lockCtx # d
C17_EveryWaiterServed ==
    /\ []NoNestedLocks
    /\ \A d \in Outs : []<>(pc[d] \notin AtLock)

(***************************************************************************)
(* C17 amended: no thread ever holds both locks and none requests a lock   *)
(* while holding one; a held lock is held by a thread that is running a    *)
(* statement and not waiting, and every lock taken is released again, so   *)
(* the threads never deadlock on the locks; a thread waiting for a lock    *)
(* gets it unless other threads hold that lock again and again: the mutex  *)
(* serves its waiters in no order and a waiter can be overtaken for ever.  *)
(***************************************************************************)
HolderRuns ==
    /\ lockDev # 0 => pc[lockDev] \in {"create", "unwind_guard"}
    /\ lockCtx # 0 => pc[lockCtx] \in {"qi_frame", "copy", "unwind_guard"}
Overtaken(d) ==
    \/ pc[d] = "lock_device" /\ lockDev \notin {0, d}
    \/ pc[d] = "lock_context" /\ lockCtx \notin {0, d}
C17_NoDeadlockOnLocks ==
    /\ []NoNestedLocks
    /\ []HolderRuns
    /\ \A d \in Outs : []<>(lockDev # d) /\ []<>(lockCtx # d)
    /\ \A d \in Outs : []<>(pc[d] \notin AtLock \/ Overtaken(d))
C17_Witness ==
    \E d, e \in Outs :
        /\ d # e
        /\ pc[d] = "create" /\ lockDev = d
        /\ pc[e] = "lock_device"
        /\ lockCtx = 0

====
